---- MODULE Spec2Model ----
(***************************************************************************)
(* A model of frost, a reader of ROS bag v2.0 files.                       *)
(*                                                                         *)
(*   - the record walker (frost/src/lib.rs: version_check, parse_records   *)
(*     and the per-record parsers it dispatches to),                       *)
(*   - the metadata tables it builds (chunk_metadata, connection_data,     *)
(*     index_data) and the cache of chunk bodies (chunk_bytes),            *)
(*   - the query planner and iterator (frost/src/util/query.rs:            *)
(*     BagIter::new and BagIter::next).                                    *)
(*                                                                         *)
(* Abstractions.  A file is its magic followed by a sequence of records.   *)
(* The byte offset of a record is abstracted to its ordinal in the stream  *)
(* (offsets are strictly increasing along the stream, and so are the       *)
(* ordinals).  A record whose header is well formed is given by its        *)
(* decoded fields; a "Raw" record carries the bytes of its header, which   *)
(* the walker decodes with parse_field exactly as the code does.  A panic  *)
(* of the code (an unwrap/expect on an absent value, a slice out of range) *)
(* is the outcome "panic": the caller gets no value.                       *)
(***************************************************************************)
EXTENDS Integers, Sequences, FiniteSets, TLC

VARIABLES
    input,        \* the file: [magic, records]
    result,       \* what Bag::from returned: [t |-> "None"] before the call, then Ok / Err / Panic
    chunk_bytes,  \* Bag.chunk_bytes: chunk_header_pos -> body, the loaded ones only
    reads,        \* history: chunk_header_pos -> number of reads of that chunk from the file
    iter,         \* the live BagIter: "none", or [status, query, index_data, current_index]
    yielded,      \* history: the views the live iterator has yielded so far
    last,         \* what the latest call on the iterator returned
    prev          \* history: what the previous read_messages of the same query yields

vars == <<input, result, chunk_bytes, reads, iter, yielded, last, prev>>

(***************************************************************************)
(* Bounds of the model.                                                    *)
(***************************************************************************)
\* records per file in the walker's specification
MaxRecords == 3

(***************************************************************************)
(* Helpers on sequences and finite maps.                                   *)
(***************************************************************************)
Range(s) == {s[i] : i \in DOMAIN s}

SeqsUpTo(S, n) == UNION {[1..k -> S] : k \in 0..n}

RECURSIVE Concat(_)
Concat(ss) == IF ss = <<>> THEN <<>> ELSE Head(ss) \o Concat(Tail(ss))

Max(S) == CHOOSE x \in S : \A y \in S : y <= x

Perms(S) == {p \in [1..Cardinality(S) -> S] : Range(p) = S}

(***************************************************************************)
(* util/time.rs: Time is {secs: u32, nsecs: u32}, modelled <<secs, nsecs>>.*)
(* Ord goes through Duration::from_secs(secs) + Duration::from_nanos(nsecs)*)
(* which carries whole seconds of nsecs into the seconds.                  *)
(***************************************************************************)
NANOS_PER_SEC == 1000000000

ZERO == <<0, 0>>

\* impl From<Time> for Duration: the normalised <<secs, subsec_nanos>>
DurationFrom(t) == <<t[1] + (t[2] \div NANOS_PER_SEC), t[2] % NANOS_PER_SEC>>

\* impl Ord for Time: -1 Less, 0 Equal, 1 Greater
TimeCmp(a, b) ==
    LET da == DurationFrom(a)
        db == DurationFrom(b)
    IN  IF da[1] < db[1] THEN -1
        ELSE IF da[1] > db[1] THEN 1
        ELSE IF da[2] < db[2] THEN -1
        ELSE IF da[2] > db[2] THEN 1
        ELSE 0

TimeLt(a, b) == TimeCmp(a, b) = -1
TimeGt(a, b) == TimeCmp(a, b) = 1
TimeLe(a, b) == TimeCmp(a, b) # 1

(***************************************************************************)
(* Outcomes of a fallible call: Ok(v), Err(e) (an io::Result's Err, tagged *)
(* by what the message says) and Panic (the thread unwinds).               *)
(***************************************************************************)
Ok(v) == [t |-> "Ok", v |-> v]
Err(e) == [t |-> "Err", e |-> e]
Panic == [t |-> "Panic"]

(***************************************************************************)
(* Byte primitives.  A buffer is a sequence of bytes; the code's 0-based   *)
(* index i is element i + 1.                                               *)
(***************************************************************************)
\* b'='
SEP == 61
\* b"op"
OP_NAME == <<111, 112>>

\* util/parsing.rs parse_u8_at
parse_u8_at(buf, index) ==
    IF index + 1 <= Len(buf) THEN Ok(buf[index + 1]) ELSE Err("BufferTooSmall")

\* util/parsing.rs parse_le_u32_at
parse_le_u32_at(buf, index) ==
    IF index + 4 <= Len(buf)
    THEN Ok(buf[index + 1] + 256 * buf[index + 2] + 65536 * buf[index + 3]
            + 16777216 * buf[index + 4])
    ELSE Err("BufferTooSmall")

\* lib.rs field_sep_index, on the slice buf[from..to]
field_sep_index(buf, from, to) ==
    LET seps == {k \in from..(to - 1) : buf[k + 1] = SEP}
    IN  IF seps = {} THEN Err("MissingFieldSeparator")
        ELSE Ok((CHOOSE k \in seps : \A m \in seps : k <= m) - from)

\* lib.rs parse_field: whether the slice &buf[i..i + field_len] is in range
parse_field_slice_ok(buf, i, field_len) == i + field_len <= Len(buf)

\* lib.rs parse_field
parse_field(buf, i0) ==
    LET len == parse_le_u32_at(buf, i0)
    IN  IF len.t # "Ok" THEN len
        ELSE LET i == i0 + 4
                 field_len == len.v
             IN  IF ~parse_field_slice_ok(buf, i, field_len) THEN Panic
                 ELSE LET sep == field_sep_index(buf, i, i + field_len)
                      IN  IF sep.t # "Ok" THEN sep
                          ELSE LET sep_pos == i + sep.v
                               IN  Ok([i |-> i + field_len,
                                       name |-> SubSeq(buf, i + 1, sep_pos),
                                       value |-> SubSeq(buf, sep_pos + 2, i + field_len)])

\* lib.rs OpCode::from
OpCode_from(byte) ==
    CASE byte = 3 -> Ok("BagHeader")
      [] byte = 5 -> Ok("ChunkHeader")
      [] byte = 7 -> Ok("ConnectionHeader")
      [] byte = 2 -> Ok("MessageData")
      [] byte = 4 -> Ok("IndexDataHeader")
      [] byte = 6 -> Ok("ChunkInfoHeader")
      [] OTHER -> Err("InvalidOpCode")

\* lib.rs read_header_op, the loop from index i on
RECURSIVE read_header_op_from(_, _)
read_header_op_from(buf, i) ==
    LET f == parse_field(buf, i)
    IN  IF f.t # "Ok" THEN f
        ELSE IF f.v.name = OP_NAME
             THEN LET op == parse_u8_at(f.v.value, 0)
                  IN  IF op.t # "Ok" THEN op ELSE OpCode_from(op.v)
             ELSE IF f.v.i >= Len(buf) THEN Err("MissingHeaderOp")
             ELSE read_header_op_from(buf, f.v.i)

\* lib.rs read_header_op.  A record given by its decoded fields has a well
\* formed header whose op field says its kind.
read_header_op(rec) ==
    IF rec.op = "Raw" THEN read_header_op_from(rec.header, 0) ELSE Ok(rec.op)

(***************************************************************************)
(* The per-record parsers of the walker.  A record of the file is          *)
(*   [op |-> "BagHeader", index_pos, conn_count, chunk_count]              *)
(*   [op |-> "ChunkHeader", compression, body]                             *)
(*   [op |-> "IndexDataHeader", ver, conn, count, data]                    *)
(*        data: the 12-byte entries [time, offset] of the record's data    *)
(*   [op |-> "ConnectionHeader", conn, topic, type]                        *)
(*   [op |-> "ChunkInfoHeader", ver, chunk_pos, start_time, end_time,      *)
(*        count, data]     data: the 8-byte entries [conn, count]          *)
(*   [op |-> "Raw", header]    a header given by its bytes                 *)
(*   [op |-> "Eof"]            the stream ends inside the record           *)
(* A chunk's body is the sequence of its bytes: MessageData records, each   *)
(* <header_len><header><data_len><data>.                                   *)
(***************************************************************************)
\* the bag header taken without the check of index_pos
parse_bag_header_unchecked(rec) ==
    Ok([index_pos |-> rec.index_pos, conn_count |-> rec.conn_count,
        chunk_count |-> rec.chunk_count])

\* lib.rs Bag::parse_bag_header
parse_bag_header(rec) ==
    IF rec.index_pos = 0 THEN Err("UnindexedBag")
    ELSE Ok([index_pos |-> rec.index_pos, conn_count |-> rec.conn_count,
             chunk_count |-> rec.chunk_count])

\* lib.rs Bag::parse_chunk (with ChunkHeader::from)
parse_chunk(rec, chunk_header_pos) ==
    Ok([compression |-> rec.compression, chunk_header_pos |-> chunk_header_pos])

\* lib.rs IndexData::from
IndexData_from(e, chunk_header_pos, conn_id) ==
    [conn_id |-> conn_id, chunk_header_pos |-> chunk_header_pos,
     time |-> e.time, offset |-> e.offset]

\* lib.rs Bag::parse_index (with IndexDataHeader::from)
parse_index(rec, chunk_header_pos) ==
    LET index_data == [i \in DOMAIN rec.data |->
                          IndexData_from(rec.data[i], chunk_header_pos, rec.conn)]
    IN  IF Len(index_data) # rec.count THEN Err("MissingRecords")
        ELSE Ok([connection_id |-> rec.conn, data |-> index_data])

\* lib.rs Bag::parse_connection (with ConnectionHeader::from, ConnectionData::from)
parse_connection(rec) ==
    Ok([connection_id |-> rec.conn, topic |-> rec.topic, data_type |-> rec.type])

\* lib.rs Bag::parse_chunk_info (with ChunkInfoHeader::from, ChunkInfoData::from)
parse_chunk_info(rec) ==
    IF Len(rec.data) # rec.count THEN Err("MissingRecords")
    ELSE Ok([header |-> [version |-> rec.ver, chunk_header_pos |-> rec.chunk_pos,
                         start_time |-> rec.start_time, end_time |-> rec.end_time,
                         connection_count |-> rec.count],
             data |-> [i \in DOMAIN rec.data |->
                          [connection_id |-> rec.data[i].conn, count |-> rec.data[i].count]]])

(***************************************************************************)
(* Bag::parse_records.  The locals of the loop are the record acc; an      *)
(* Option is a sequence of length 0 or 1.                                  *)
(***************************************************************************)
acc0 ==
    [bag_header |-> <<>>, chunk_headers |-> <<>>, chunk_infos |-> <<>>,
     connections |-> <<>>, index_data |-> <<>>, last_chunk_header_pos |-> <<>>]

\* index_data.entry(connection_id).or_insert_with(Vec::new).append(&mut data)
index_append(index_data, connection_id, data) ==
    IF connection_id \in DOMAIN index_data
    THEN [index_data EXCEPT ![connection_id] = @ \o data]
    ELSE [c \in DOMAIN index_data \cup {connection_id} |->
             IF c = connection_id THEN data ELSE index_data[c]]

\* the arms of the match on op in the loop of parse_records
on_bag_header(acc, h) ==
    IF h.t # "Ok" THEN h ELSE Ok([acc EXCEPT !.bag_header = <<h.v>>])

\* the ChunkHeader arm with last_chunk_header_pos set by the first chunk only
on_chunk_header_first(acc, h, pos) ==
    IF h.t # "Ok" THEN h
    ELSE Ok([acc EXCEPT !.last_chunk_header_pos =
                            IF @ = <<>> THEN <<pos>> ELSE @,
                        !.chunk_headers = Append(@, h.v)])

on_chunk_header(acc, h, pos) ==
    IF h.t # "Ok" THEN h
    ELSE Ok([acc EXCEPT !.last_chunk_header_pos = <<pos>>,
                        !.chunk_headers = Append(@, h.v)])

on_index_data(acc, x) ==
    IF x.t # "Ok" THEN x
    ELSE Ok([acc EXCEPT !.index_data = index_append(@, x.v.connection_id, x.v.data)])

on_connection(acc, c) ==
    IF c.t # "Ok" THEN c ELSE Ok([acc EXCEPT !.connections = Append(@, c.v)])

on_chunk_info(acc, c) ==
    IF c.t # "Ok" THEN c ELSE Ok([acc EXCEPT !.chunk_infos = Append(@, c.v)])

\* the match on op with the arm `_` passing the record over
match_op_passing(acc, rec, pos, op) ==
    IF op.t # "Ok" THEN op
    ELSE CASE op.v = "BagHeader" -> on_bag_header(acc, parse_bag_header(rec))
           [] op.v = "ChunkHeader" -> on_chunk_header(acc, parse_chunk(rec, pos), pos)
           [] op.v = "IndexDataHeader" ->
                IF acc.last_chunk_header_pos = <<>> THEN Err("MissingChunk")
                ELSE on_index_data(acc, parse_index(rec, acc.last_chunk_header_pos[1]))
           [] op.v = "ConnectionHeader" -> on_connection(acc, parse_connection(rec))
           [] op.v = "ChunkInfoHeader" -> on_chunk_info(acc, parse_chunk_info(rec))
           [] OTHER -> Ok(acc)

\* the match on op, the result of read_header_op
match_op(acc, rec, pos, op) ==
    IF op.t # "Ok" THEN op
    ELSE CASE op.v = "BagHeader" -> on_bag_header(acc, parse_bag_header(rec))
           [] op.v = "ChunkHeader" -> on_chunk_header(acc, parse_chunk(rec, pos), pos)
           [] op.v = "IndexDataHeader" ->
                IF acc.last_chunk_header_pos = <<>> THEN Err("MissingChunk")
                ELSE on_index_data(acc, parse_index(rec, acc.last_chunk_header_pos[1]))
           [] op.v = "ConnectionHeader" -> on_connection(acc, parse_connection(rec))
           [] op.v = "ChunkInfoHeader" -> on_chunk_info(acc, parse_chunk_info(rec))
           [] OTHER -> Err("InvalidBag")

\* one turn of the loop of parse_records, on the record at position pos; the
\* record "Eof" is a stream that ends inside a record's header
parse_record(acc, rec, pos) ==
    IF rec.op = "Eof" THEN Err("UnexpectedEof")
    ELSE match_op(acc, rec, pos, read_header_op(rec))

\* the loop of parse_records from the record at position pos on
RECURSIVE parse_records_loop(_, _, _)
RECURSIVE parse_records_step(_, _, _)
parse_records_step(records, pos, r) ==
    IF r.t # "Ok" THEN r ELSE parse_records_loop(records, pos + 1, r.v)

parse_records_loop(records, pos, acc) ==
    IF pos > Len(records) THEN Ok(acc)
    ELSE parse_records_step(records, pos, parse_record(acc, records[pos], pos))

\* the indexes of the chunk infos at the position of chunk header h
matching_infos(chunk_infos, h) ==
    {i \in DOMAIN chunk_infos : chunk_infos[i].header.chunk_header_pos = h.chunk_header_pos}

\* .find(..): the first of them
find_info(chunk_infos, h) ==
    chunk_infos[CHOOSE i \in matching_infos(chunk_infos, h) :
                    \A j \in matching_infos(chunk_infos, h) : i <= j]

\* message_counts: collect::<BTreeMap<_, _>>(), the last pair of a key stays
message_counts(data) ==
    [c \in {data[i].connection_id : i \in DOMAIN data} |->
        data[Max({i \in DOMAIN data : data[i].connection_id = c})].count]

ChunkMetadata(h, ci) ==
    [compression |-> h.compression,
     chunk_header_pos |-> h.chunk_header_pos,
     start_time |-> ci.header.start_time,
     end_time |-> ci.header.end_time,
     connection_count |-> ci.header.connection_count,
     message_counts |-> message_counts(ci.data)]

\* the chunk headers that have a chunk info; collect() keeps the last of a key
joined_headers(chunk_headers, chunk_infos) ==
    {i \in DOMAIN chunk_headers : matching_infos(chunk_infos, chunk_headers[i]) # {}}

last_header_at(chunk_headers, joined, p) ==
    chunk_headers[Max({i \in joined : chunk_headers[i].chunk_header_pos = p})]

collect_chunk_metadata(chunk_headers, chunk_infos, joined) ==
    [p \in {chunk_headers[i].chunk_header_pos : i \in joined} |->
        ChunkMetadata(last_header_at(chunk_headers, joined, p),
                      find_info(chunk_infos, last_header_at(chunk_headers, joined, p)))]

\* the join of the chunk headers with the chunk infos: the first info at the
\* header's position, and no entry for a header that has none
join_chunk_metadata(chunk_headers, chunk_infos) ==
    collect_chunk_metadata(chunk_headers, chunk_infos,
                           joined_headers(chunk_headers, chunk_infos))

\* connections.into_iter().map(|data| (data.connection_id, data)).collect()
collect_connection_data(connections) ==
    [c \in {connections[i].connection_id : i \in DOMAIN connections} |->
        connections[Max({i \in DOMAIN connections : connections[i].connection_id = c})]]

\* Bag::parse_records behind its loop: the count checks and the maps built
check_counts(bag_header, w) ==
    IF bag_header.chunk_count # Len(w.chunk_headers) THEN Err("MissingRecords")
    ELSE IF bag_header.chunk_count # Len(w.chunk_infos) THEN Err("MissingRecords")
    ELSE IF bag_header.conn_count # Len(w.connections) THEN Err("MissingRecords")
    ELSE Ok([bag_header |-> bag_header,
             chunk_metadata |-> join_chunk_metadata(w.chunk_headers, w.chunk_infos),
             connection_data |-> collect_connection_data(w.connections),
             index_data |-> w.index_data,
             num_chunk_infos |-> Len(w.chunk_infos)])

finish_records(w) ==
    IF w.t # "Ok" THEN w
    ELSE IF w.v.bag_header = <<>> THEN Err("MissingBagHeader")
    ELSE check_counts(w.v.bag_header[1], w.v)

\* lib.rs Bag::parse_records
parse_records(records) == finish_records(parse_records_loop(records, 1, acc0))

\* lib.rs Bag::version_check; magic is "ok" (the 13 bytes "#ROSBAG V2.0\n"),
\* "bad" (13 other bytes) or "short" (fewer than 13 bytes: read_exact fails with
\* the reader's UnexpectedEof).  The io::Error the code builds for 13 other
\* bytes carries the message of errors.rs NotARosbag and is named after it, as
\* "Unindexed bag" is named UnindexedBag.
version_check(magic) ==
    CASE magic = "short" -> Err("UnexpectedEof")
      [] magic = "ok" -> Ok("2.0")
      [] OTHER -> Err("NotARosbag")

\* lib.rs Bag::from
Bag_from(file) ==
    LET version == version_check(file.magic)
    IN  IF version.t # "Ok" THEN version
        ELSE parse_records(file.records)

(***************************************************************************)
(* The opened bag.  result.v holds chunk_metadata, connection_data and     *)
(* index_data as parse_records returned them; chunk_bytes is the cache of  *)
(* chunk bodies, empty after Bag::from.                                    *)
(***************************************************************************)
Opened == result.t = "Ok"
bag == result.v

\* lib.rs Bag::from, the fold that builds topic_to_connection_ids
topic_to_connection_ids(b) ==
    [topic \in {b.connection_data[c].topic : c \in DOMAIN b.connection_data} |->
        {c \in DOMAIN b.connection_data : b.connection_data[c].topic = topic}]

\* the same map keyed by the connection's data_type
type_to_connection_ids(b) ==
    [ty \in {b.connection_data[c].data_type : c \in DOMAIN b.connection_data} |->
        {c \in DOMAIN b.connection_data : b.connection_data[c].data_type = ty}]

\* lib.rs Bag::message_count
message_count(b) ==
    LET ids == DOMAIN b.index_data
        RECURSIVE total(_)
        total(S) == IF S = {} THEN 0
                    ELSE LET c == CHOOSE x \in S : TRUE
                         IN  Len(b.index_data[c]) + total(S \ {c})
    IN  total(ids)

(***************************************************************************)
(* util/query.rs.  A Query is [topics, types, start_time, end_time], each  *)
(* an Option: <<>> is None and <<x>> is Some(x).                           *)
(***************************************************************************)
\* Query::all
Query_all == [topics |-> <<>>, types |-> <<>>, start_time |-> <<>>, end_time |-> <<>>]

\* BagIter::new: the connection ids selected by one dimension of the query
ids_from(selection, to_connection_ids) ==
    IF selection = <<>>
    THEN UNION {to_connection_ids[k] : k \in DOMAIN to_connection_ids}
    ELSE UNION {to_connection_ids[k] : k \in selection[1] \cap DOMAIN to_connection_ids}

\* BagIter::new: ids_from_topics.intersection(&ids_from_types)
selected_ids(b, query) ==
    ids_from(query.topics, topic_to_connection_ids(b))
        \cap ids_from(query.types, type_to_connection_ids(b))

\* the time window with the end bound left out
in_window_no_end(query, data) ==
    ~(query.start_time # <<>> /\ TimeLt(data.time, query.start_time[1]))

\* BagIter::new: the closure given to filter
in_window(query, data) ==
    /\ ~(query.start_time # <<>> /\ TimeLt(data.time, query.start_time[1]))
    /\ ~(query.end_time # <<>> /\ TimeGt(data.time, query.end_time[1]))

\* the list left as it was collected
sort_by_time_skipped(s) == s

\* BagIter::new: index_data.sort_by(|a, b| a.time.cmp(&b.time)), a stable sort:
\* each element goes behind the elements that do not compare Greater than it
RECURSIVE sort_by_time(_)
sort_by_time(s) ==
    IF s = <<>> THEN <<>>
    ELSE LET n == Len(s)
             x == s[n]
             front == sort_by_time(SubSeq(s, 1, n - 1))
             k == Cardinality({i \in DOMAIN front : TimeCmp(front[i].time, x.time) # 1})
         IN  SubSeq(front, 1, k) \o <<x>> \o SubSeq(front, k + 1, n - 1)

\* BagIter::new.  order is the order in which the HashSet ids is iterated: a
\* HashSet's iteration order is not fixed, the caller draws it.
BagIter_new(b, query, order) ==
    IF \E i \in DOMAIN order : order[i] \notin DOMAIN b.index_data
    THEN Panic
    ELSE LET all == Concat([i \in DOMAIN order |-> b.index_data[order[i]]])
             index_data == SelectSeq(all, LAMBDA data : in_window(query, data))
         IN  Ok([status |-> "live", query |-> query,
                 index_data |-> sort_by_time(index_data), current_index |-> 0])

\* util/time.rs Time::from
Time_from(buf) ==
    IF parse_le_u32_at(buf, 0).t # "Ok" THEN parse_le_u32_at(buf, 0)
    ELSE IF parse_le_u32_at(buf, 4).t # "Ok" THEN parse_le_u32_at(buf, 4)
    ELSE Ok(<<parse_le_u32_at(buf, 0).v, parse_le_u32_at(buf, 4).v>>)

CONN_NAME == <<99, 111, 110, 110>>
TIME_NAME == <<116, 105, 109, 101>>
OP_MESSAGE_DATA == 2

\* lib.rs MessageDataHeader::from: a field's value stored, r the parsed value
set_field(acc, field, r) ==
    IF r.t # "Ok" THEN r ELSE Ok([acc EXCEPT ![field] = <<r.v>>])

\* the arm for b"op"
check_op(acc, op, expected) ==
    IF op.t # "Ok" THEN op
    ELSE IF op.v # expected THEN Err("InvalidRecordOp")
    ELSE Ok(acc)

\* the match on the field's name
MessageDataHeader_match(acc, f) ==
    CASE f.name = CONN_NAME -> set_field(acc, "conn", parse_le_u32_at(f.value, 0))
      [] f.name = TIME_NAME -> set_field(acc, "time", Time_from(f.value))
      [] f.name = OP_NAME -> check_op(acc, parse_u8_at(f.value, 0), OP_MESSAGE_DATA)
      [] OTHER -> Err("InvalidRecordField")

\* the struct built behind the loop
MessageDataHeader_build(acc) ==
    IF acc.conn = <<>> \/ acc.time = <<>> THEN Err("MissingRecordField")
    ELSE Ok([conn |-> acc.conn[1], time |-> acc.time[1]])

\* the loop over the fields from index i on
RECURSIVE MessageDataHeader_loop(_, _, _)
RECURSIVE MessageDataHeader_step(_, _, _)
RECURSIVE MessageDataHeader_next(_, _, _)
MessageDataHeader_next(buf, i, acc) ==
    IF acc.t # "Ok" THEN acc
    ELSE IF i >= Len(buf) THEN MessageDataHeader_build(acc.v)
    ELSE MessageDataHeader_loop(buf, i, acc.v)

MessageDataHeader_step(buf, acc, f) ==
    IF f.t # "Ok" THEN f
    ELSE MessageDataHeader_next(buf, f.v.i, MessageDataHeader_match(acc, f.v))

MessageDataHeader_loop(buf, i, acc) ==
    MessageDataHeader_step(buf, acc, parse_field(buf, i))

\* lib.rs MessageDataHeader::from
MessageDataHeader_from(buf) ==
    MessageDataHeader_loop(buf, 0, [conn |-> <<>>, time |-> <<>>])

\* BagIter::next: let data_end = data_start + data_len with the 4 bytes of the
\* length left out
data_end_without_len(data_start, data_len) == data_start + data_len

\* BagIter::next: let data_end = data_start + data_len + 4
data_end_of(data_start, data_len) == data_start + data_len + 4

\* BagIter::next behind the header: data_len read at header_end and the view
next_data(b, data, body, header_end, data_len) ==
    IF data_len.t # "Ok" THEN Panic
    ELSE [t |-> "Some",
          view |-> [topic |-> b.connection_data[data.conn_id].topic,
                    chunk_loc |-> data.chunk_header_pos,
                    start_index |-> header_end,
                    end_index |-> data_end_of(header_end, data_len.v)],
          entry |-> data]

\* BagIter::next: the header slice &chunk_bytes[header_start..header_end] and
\* MessageDataHeader::from(..).expect(..)
next_header(b, data, body, header_start, header_end) ==
    IF header_end > Len(body) THEN Panic
    ELSE IF MessageDataHeader_from(SubSeq(body, header_start + 1, header_end)).t # "Ok"
    THEN Panic
    ELSE next_data(b, data, body, header_end, parse_le_u32_at(body, header_end))

\* BagIter::next: header_len read at data.offset, unwrapped
next_record(b, data, body, header_len) ==
    IF header_len.t # "Ok" THEN Panic
    ELSE next_header(b, data, body, data.offset + 4, data.offset + 4 + header_len.v)

\* BagIter::next on the entry data under the cursor
next_entry(b, bytes, data) ==
    IF data.conn_id \notin DOMAIN b.connection_data THEN Panic
    ELSE IF data.chunk_header_pos \notin DOMAIN bytes THEN [t |-> "None"]
    ELSE next_record(b, data, bytes[data.chunk_header_pos],
                     parse_le_u32_at(bytes[data.chunk_header_pos], data.offset))

\* BagIter::next: "None", "Panic", or Some(view) with the cursor advanced
BagIter_next(b, bytes, it) ==
    IF it.current_index >= Len(it.index_data) THEN [t |-> "None"]
    ELSE next_entry(b, bytes, it.index_data[it.current_index + 1])

\* util/msgs.rs MessageView::raw_bytes: &chunk_bytes[start_index..end_index]
raw_bytes(bytes, view) ==
    IF view.chunk_loc \notin DOMAIN bytes THEN Err("InvalidBag")
    ELSE IF view.end_index > Len(bytes[view.chunk_loc]) THEN Panic
    ELSE Ok(SubSeq(bytes[view.chunk_loc], view.start_index + 1, view.end_index))

\* what iterating it to its end yields from the cursor on: the sequence of
\* <<topic, time, raw_bytes>> of the views returned before next() returns None
\* or panics
RECURSIVE Output(_, _, _)
Output(b, bytes, it) ==
    LET r == BagIter_next(b, bytes, it)
    IN  IF r.t # "Some" THEN <<>>
        ELSE <<<<r.view.topic, r.entry.time, raw_bytes(bytes, r.view)>>>>
             \o Output(b, bytes, [it EXCEPT !.current_index = @ + 1])

(***************************************************************************)
(* The files of the model.                                                 *)
(***************************************************************************)
\* index entries of one IndexData record of connection 0
MaxEntries == 2

Topics == {"/a", "/b"}
Types == {"S", "T"}
Times == {<<0, 1>>, <<1, 0>>}

\* the 4 bytes of a u32, little-endian
u32_le_bytes(n) ==
    <<n % 256, (n \div 256) % 256, (n \div 65536) % 256, (n \div 16777216) % 256>>

\* a header field: <field_len><name>=<value>
FieldBytes(name, value) == u32_le_bytes(Len(name) + 1 + Len(value)) \o name \o <<SEP>> \o value

\* the header of a MessageData record: conn, time and op = 0x02
MsgHeaderBytes(conn, time) ==
    FieldBytes(CONN_NAME, u32_le_bytes(conn))
        \o FieldBytes(TIME_NAME, u32_le_bytes(time[1]) \o u32_le_bytes(time[2]))
        \o FieldBytes(OP_NAME, <<OP_MESSAGE_DATA>>)

\* the k-th MessageData record of a chunk body:
\* <header_len><header><data_len><data>, its payload the two bytes k, k % 2
MsgBytes(k) ==
    u32_le_bytes(Len(MsgHeaderBytes(k \div MaxEntries, <<0, 1>>)))
        \o MsgHeaderBytes(k \div MaxEntries, <<0, 1>>)
        \o u32_le_bytes(Len(<<k, k % 2>>)) \o <<k, k % 2>>

MsgOffset(k) == k * Len(MsgBytes(0))

\* the chunk body of n messages
ChunkBody(n) == Concat([k \in 1..n |-> MsgBytes(k - 1)])

BagHeaderRec(index_pos, conn_count, chunk_count) ==
    [op |-> "BagHeader", index_pos |-> index_pos, conn_count |-> conn_count,
     chunk_count |-> chunk_count]
ChunkHeaderRec(body) == [op |-> "ChunkHeader", compression |-> "none", body |-> body]
\* a chunk stored under another compression; body is its uncompressed content
CompressedChunkRec(compression, body) ==
    [op |-> "ChunkHeader", compression |-> compression, body |-> body]
ConnectionRec(conn, topic, type) ==
    [op |-> "ConnectionHeader", conn |-> conn, topic |-> topic, type |-> type]
\* the IndexData record of connection conn whose entries have the times ts; the
\* i-th entry of connection c points at message MaxEntries * c + i - 1
IndexRec(conn, count, ts) ==
    [op |-> "IndexDataHeader", ver |-> 1, conn |-> conn, count |-> count,
     data |-> [i \in DOMAIN ts |->
                  [time |-> ts[i], offset |-> MsgOffset(MaxEntries * conn + i - 1)]]]
ChunkInfoRec(chunk_pos, count, data) ==
    [op |-> "ChunkInfoHeader", ver |-> 1, chunk_pos |-> chunk_pos,
     start_time |-> <<0, 1>>, end_time |-> <<1, 0>>, count |-> count, data |-> data]

\* the ConnectionHeader records of a file: connection 0 on ("/a", "S") or absent,
\* connection 1 on another (topic, type) or absent
ConnLayouts ==
    {c0 \o c1 : c0 \in {<<>>, <<ConnectionRec(0, "/a", "S")>>},
                c1 \in {<<>>, <<ConnectionRec(1, "/a", "T")>>, <<ConnectionRec(1, "/b", "S")>>,
                        <<ConnectionRec(1, "/b", "T")>>}}

\* the IndexData records of a file: of connection 0 none or one with up to
\* MaxEntries entries, of connection 1 none or one with one entry
IndexLayouts ==
    {i0 \o i1 : i0 \in {<<>>} \cup {<<IndexRec(0, Len(ts), ts)>> : ts \in SeqsUpTo(Times, MaxEntries)},
                i1 \in {<<>>} \cup {<<IndexRec(1, 1, <<t>>)>> : t \in Times}}

\* a file of one chunk at position 2, its chunk info naming position info_pos and
\* its body holding the first n_msgs messages
BagFile(conns, index, info_pos, n_msgs) ==
    [magic |-> "ok",
     records |-> <<BagHeaderRec(1, Len(conns), 1), ChunkHeaderRec(ChunkBody(n_msgs))>>
                 \o index \o conns \o <<ChunkInfoRec(info_pos, 0, <<>>)>>]

\* a file of one connection and one message in a chunk stored compressed
CompressedBagFile(compression) ==
    [magic |-> "ok",
     records |-> <<BagHeaderRec(1, 1, 1), CompressedChunkRec(compression, ChunkBody(1)),
                   IndexRec(0, 1, <<<<0, 1>>>>), ConnectionRec(0, "/a", "S"),
                   ChunkInfoRec(2, 0, <<>>)>>]

\* the files the iterator is checked on: every layout with the chunk info in
\* place and the body whole; for the layout with both connections, a chunk
\* info that names another position and a body cut short; and a compressed chunk
BagFiles ==
    {BagFile(conns, index, 2, MaxEntries + 1) : conns \in ConnLayouts, index \in IndexLayouts}
    \cup {BagFile(<<ConnectionRec(0, "/a", "S"), ConnectionRec(1, "/b", "T")>>, index, 1, MaxEntries + 1) :
            index \in IndexLayouts}
    \cup {BagFile(<<ConnectionRec(0, "/a", "S"), ConnectionRec(1, "/b", "T")>>, index, 2, 1) :
            index \in IndexLayouts}
    \cup {CompressedBagFile(c) : c \in {"lz4", "bz2"}}

OptionOf(S) == {<<>>} \cup {<<x>> : x \in S}

Queries ==
    [topics : OptionOf(SUBSET Topics \ {{}}), types : OptionOf({{ty} : ty \in Types}),
     start_time : OptionOf(Times), end_time : OptionOf(Times)]

\* the positions of the ChunkHeader records of a file
ChunkPositions(file) ==
    {p \in DOMAIN file.records : file.records[p].op = "ChunkHeader"}

(***************************************************************************)
(* The state machine.                                                      *)
(***************************************************************************)
NoIter == [status |-> "none"]
Panicked == [status |-> "panic"]

InitRest ==
    /\ result = [t |-> "None"]
    /\ chunk_bytes = <<>>
    /\ reads = <<>>
    /\ iter = NoIter
    /\ yielded = <<>>
    /\ last = "none"
    /\ prev = <<>>

Init ==
    /\ input \in BagFiles
    /\ InitRest

\* Bag::from(file_path)
Open ==
    /\ result.t = "None"
    /\ result' = Bag_from(input)
    /\ chunk_bytes' = <<>>
    /\ UNCHANGED <<input, reads, iter, yielded, last, prev>>

\* the bytes of the file at a chunk's chunk_data_pos, which populate_chunk_bytes
\* reads whatever the chunk's compression: the body of an uncompressed chunk, and
\* of a compressed one the compressed bytes, which hold no record (the empty
\* sequence stands for them)
stored_bytes(rec) == IF rec.compression = "none" THEN rec.body ELSE <<>>

\* lib.rs Bag::populate_chunk_bytes: the body read from the file at the chunk's
\* chunk_data_pos
populate_chunk_bytes(bytes, file, chunk_loc) ==
    [p \in DOMAIN bytes \cup {chunk_loc} |->
        IF p = chunk_loc THEN stored_bytes(file.records[chunk_loc]) ELSE bytes[p]]

\* a get_chunk_bytes that reads the chunk from the file on every call
GetChunkBytes_rereading(chunk_loc) ==
    /\ Opened
    /\ iter = NoIter
    /\ IF chunk_loc \notin DOMAIN bag.chunk_metadata
       THEN /\ result' = Panic
            /\ UNCHANGED <<chunk_bytes, reads>>
       ELSE /\ chunk_bytes' = populate_chunk_bytes(chunk_bytes, input, chunk_loc)
            /\ reads' = [p \in DOMAIN reads \cup {chunk_loc} |->
                            IF p \in DOMAIN reads
                            THEN reads[p] + (IF p = chunk_loc THEN 1 ELSE 0)
                            ELSE 1]
            /\ UNCHANGED result
    /\ UNCHANGED <<input, iter, yielded, last, prev>>

\* lib.rs Bag::get_chunk_bytes(chunk_loc); it borrows the bag mutably, so no
\* iterator is alive
GetChunkBytes(chunk_loc) ==
    /\ Opened
    /\ iter = NoIter
    /\ IF chunk_loc \in DOMAIN chunk_bytes
       THEN UNCHANGED <<result, chunk_bytes, reads>>
       ELSE IF chunk_loc \notin DOMAIN bag.chunk_metadata
            THEN /\ result' = Panic
                 /\ UNCHANGED <<chunk_bytes, reads>>
            ELSE /\ chunk_bytes' = populate_chunk_bytes(chunk_bytes, input, chunk_loc)
                 /\ reads' = [p \in DOMAIN reads \cup {chunk_loc} |->
                                 IF p \in DOMAIN reads THEN reads[p] + 1 ELSE 1]
                 /\ UNCHANGED result
    /\ UNCHANGED <<input, iter, yielded, last, prev>>

\* whether read_messages(query) is taken in this state: on a bag with no live
\* iterator, or again with the query of the live iterator, which is dropped
\* (any other query is issued after DropIter, to the same effect)
CanRead(query) ==
    /\ Opened
    /\ iter # Panicked
    /\ (iter # NoIter => iter.query = query)

\* lib.rs Bag::read_messages(query): BagIter::new
ReadMessages(query, order) ==
    /\ CanRead(query)
    /\ LET r == BagIter_new(bag, query, order)
       IN  iter' = IF r.t = "Ok" THEN r.v ELSE Panicked
    /\ prev' = IF iter # NoIter
               THEN <<Output(bag, chunk_bytes, [iter EXCEPT !.current_index = 0])>>
               ELSE <<>>
    /\ yielded' = <<>>
    /\ last' = "new"
    /\ UNCHANGED <<input, result, chunk_bytes, reads>>

\* a next() that reads the chunk of the entry under the cursor into the cache
IterNext_populating ==
    /\ Opened
    /\ iter.status = "live"
    /\ iter.current_index < Len(iter.index_data)
    /\ chunk_bytes' = populate_chunk_bytes(chunk_bytes, input,
                           iter.index_data[iter.current_index + 1].chunk_header_pos)
    /\ UNCHANGED <<input, result, reads, iter, yielded, last, prev>>

\* BagIter::next
IterNext ==
    /\ Opened
    /\ iter # NoIter
    /\ iter # Panicked
    /\ LET r == BagIter_next(bag, chunk_bytes, iter)
       IN  CASE r.t = "None" ->
                  /\ last' = "None"
                  /\ UNCHANGED <<iter, yielded>>
             [] r.t = "Panic" ->
                  /\ last' = "Panic"
                  /\ iter' = Panicked
                  /\ UNCHANGED yielded
             [] r.t = "Some" ->
                  /\ last' = "Some"
                  /\ iter' = [iter EXCEPT !.current_index = @ + 1]
                  /\ yielded' = Append(yielded,
                        [entry |-> r.entry, view |-> r.view,
                         raw_bytes |-> raw_bytes(chunk_bytes, r.view)])
    /\ UNCHANGED <<input, result, chunk_bytes, reads, prev>>

\* the iterator is dropped
DropIter ==
    /\ iter # NoIter
    /\ iter # Panicked
    /\ iter' = NoIter
    /\ yielded' = <<>>
    /\ last' = "none"
    /\ prev' = <<>>
    /\ UNCHANGED <<input, result, chunk_bytes, reads>>

Next ==
    \/ Open
    \/ \E chunk_loc \in ChunkPositions(input) : GetChunkBytes(chunk_loc)
    \/ \E query \in Queries :
          \E order \in (IF CanRead(query) THEN Perms(selected_ids(bag, query)) ELSE {}) :
             ReadMessages(query, order)
    \/ IterNext
    \/ DropIter

Spec == Init /\ [][Next]_vars

(***************************************************************************)
(* The walker's specification: Bag::from on every file of up to MaxRecords *)
(* records drawn from WalkRecords.                                         *)
(***************************************************************************)
\* headers given by their bytes: an empty header; a field with no '='; a field
\* whose field_len (9) runs past the end of the header; op = 0x02; op = 0x09; a
\* header with the one field "a="
RawHeaders ==
    {<<>>,
     <<1, 0, 0, 0, 0>>,
     <<9, 0, 0, 0, 61>>,
     <<4, 0, 0, 0, 111, 112, 61, 2>>,
     <<4, 0, 0, 0, 111, 112, 61, 9>>,
     <<2, 0, 0, 0, 97, 61>>}

WalkRecords ==
    {BagHeaderRec(ip, cc, kc) : ip \in {0, 1}, cc \in {0, 1}, kc \in {0, 1}}
    \cup {ChunkHeaderRec(ChunkBody(1))}
    \cup {IndexRec(0, n, <<<<0, 1>>>>) : n \in {0, 1}}
    \cup {ConnectionRec(0, "/a", "S")}
    \cup {ChunkInfoRec(p, 0, <<>>) : p \in 1..MaxRecords}
    \cup {[op |-> "Raw", header |-> h] : h \in RawHeaders}
    \cup {[op |-> "Eof"]}

WalkFiles ==
    {[magic |-> "ok", records |-> rs] : rs \in SeqsUpTo(WalkRecords, MaxRecords)}
    \cup {[magic |-> "bad", records |-> rs] : rs \in SeqsUpTo(WalkRecords, 1)}
    \cup {[magic |-> "short", records |-> <<>>]}

InitWalk ==
    /\ input \in WalkFiles
    /\ InitRest

SpecWalk == InitWalk /\ [][Open]_vars

(***************************************************************************)
(* Claims on the iterator, checked under Spec.                             *)
(***************************************************************************)
Live == iter.status = "live"

\* the bodies of all chunks of the opened bag are loaded
BodiesLoaded == DOMAIN bag.chunk_metadata \subseteq DOMAIN chunk_bytes

\* the connection passes the query's topic and type filters
PassesFilters(query, conn) ==
    /\ query.topics = <<>> \/ conn.topic \in query.topics[1]
    /\ query.types = <<>> \/ conn.data_type \in query.types[1]

\* the time lies in the query's window, both bounds inclusive
InTimeWindow(query, time) ==
    /\ query.start_time = <<>> \/ TimeLe(query.start_time[1], time)
    /\ query.end_time = <<>> \/ TimeLe(time, query.end_time[1])

\* the index entries of the bag that the query selects: <<connection, position in
\* the connection's list>>
Matching(b, query) ==
    {ci \in UNION {{<<c, i>> : i \in DOMAIN b.index_data[c]} : c \in DOMAIN b.index_data} :
        /\ ci[1] \in DOMAIN b.connection_data
        /\ PassesFilters(query, b.connection_data[ci[1]])
        /\ InTimeWindow(query, b.index_data[ci[1]][ci[2]].time)}

\* C1: the messages an iterator has yielded are in non-decreasing order of their
\* index-entry time
C1_TimeOrdered ==
    \A i \in 1..(Len(yielded) - 1) :
        TimeLe(yielded[i].entry.time, yielded[i + 1].entry.time)

\* two messages are yielded from a connection whose index stores the later one
\* first
C1_Witness ==
    /\ Opened
    /\ Len(yielded) >= 2
    /\ \E c \in DOMAIN bag.index_data :
          /\ Len(bag.index_data[c]) = 2
          /\ TimeGt(bag.index_data[c][1].time, bag.index_data[c][2].time)
          /\ yielded[1].entry = bag.index_data[c][2]
          /\ yielded[2].entry = bag.index_data[c][1]

\* C2: with every chunk body loaded, an iterator that has run to its end has
\* yielded every index entry whose connection passes the topic and type filters
\* and whose time lies in the window
C2_Complete ==
    (Opened /\ Live /\ last = "None" /\ BodiesLoaded) =>
        \A ci \in Matching(bag, iter.query) :
            \E k \in DOMAIN yielded : yielded[k].entry = bag.index_data[ci[1]][ci[2]]

\* C3: every message yielded comes from a connection that passes the topic and
\* type filters, carries that connection's topic, and has its time in the window
C3_Sound ==
    (Opened /\ Live) =>
        \A k \in DOMAIN yielded :
            LET data == yielded[k].entry
            IN  /\ data.conn_id \in DOMAIN bag.connection_data
                /\ PassesFilters(iter.query, bag.connection_data[data.conn_id])
                /\ yielded[k].view.topic = bag.connection_data[data.conn_id].topic
                /\ InTimeWindow(iter.query, data.time)

\* a query with all four filters set has yielded a message while it leaves out
\* one entry by its time and another by its connection
C3_Witness ==
    /\ Opened /\ Live /\ last = "None"
    /\ Len(yielded) >= 1
    /\ iter.query.topics # <<>> /\ iter.query.types # <<>>
    /\ iter.query.start_time # <<>> /\ iter.query.end_time # <<>>
    /\ \E c \in DOMAIN bag.index_data : \E i \in DOMAIN bag.index_data[c] :
          /\ c \in DOMAIN bag.connection_data
          /\ PassesFilters(iter.query, bag.connection_data[c])
          /\ ~InTimeWindow(iter.query, bag.index_data[c][i].time)
    /\ \E c \in DOMAIN bag.index_data : \E i \in DOMAIN bag.index_data[c] :
          /\ c \in DOMAIN bag.connection_data
          /\ ~PassesFilters(iter.query, bag.connection_data[c])
          /\ InTimeWindow(iter.query, bag.index_data[c][i].time)

\* C4: with every chunk body loaded, an iterator that has run to its end has
\* yielded as many messages as there are index entries in the window on the
\* connections that pass both filters
C4_Count ==
    (Opened /\ Live /\ last = "None" /\ BodiesLoaded) =>
        Len(yielded) = Cardinality(Matching(bag, iter.query))

\* every entry the iterator holds has its message in a loaded chunk body
AllReadable ==
    \A i \in DOMAIN iter.index_data :
        next_entry(bag, chunk_bytes, iter.index_data[i]).t = "Some"

\* C5: read_messages called again with the same query on the same bag, where
\* every selected message can be read, yields the same sequence of (topic, time,
\* raw bytes) as the call before, however far the earlier iterator was consumed
C5_Repeatable ==
    (Opened /\ Live /\ prev # <<>> /\ AllReadable) =>
        Output(bag, chunk_bytes, [iter EXCEPT !.current_index = 0]) = prev[1]

\* C11: loading the body of a chunk whose compression is neither "none" nor
\* "lz4" fails and caches no body for the chunk
C11_UnsupportedCompression ==
    Opened =>
        \A p \in DOMAIN chunk_bytes :
            bag.chunk_metadata[p].compression \in {"none", "lz4"}

\* the u32 of the chunk body at byte offset o
U32At(body, o) == parse_le_u32_at(body, o).v

\* C12: the view yielded for an index entry with offset o spans the body range
\* [o + 4 + header_len, o + 4 + header_len + 4 + data_len): raw_bytes() is that
\* range, begins with the 4 bytes of data_len and is data_len + 4 long, and the
\* view's topic is the topic of the entry's connection
C12_ViewRange ==
    Opened =>
        \A k \in DOMAIN yielded :
            LET o == yielded[k].entry.offset
                body == chunk_bytes[yielded[k].entry.chunk_header_pos]
                header_len == U32At(body, o)
                data_len == U32At(body, o + 4 + header_len)
                raw == yielded[k].raw_bytes
            IN  /\ yielded[k].view.start_index = o + 4 + header_len
                /\ yielded[k].view.end_index = o + 4 + header_len + 4 + data_len
                /\ raw = Ok(SubSeq(body, o + 4 + header_len + 1, o + 4 + header_len + 4 + data_len))
                /\ Len(raw.v) = data_len + 4
                /\ U32At(raw.v, 0) = data_len
                /\ yielded[k].view.topic =
                       bag.connection_data[yielded[k].entry.conn_id].topic

\* the second message of a chunk body, which starts at an offset above 0, is
\* yielded with its length prefix and its two bytes of payload
C12_Witness ==
    /\ Opened
    /\ \E k \in DOMAIN yielded :
          /\ yielded[k].entry.offset = MsgOffset(1)
          /\ yielded[k].raw_bytes = Ok(u32_le_bytes(2) \o <<1, 1>>)

\* C13: a next() leaves the bag as it was: the file, chunk_metadata,
\* connection_data, index_data and the loaded chunk bodies are unchanged, no
\* chunk is read, and of the iterator only the cursor moves
C13_NextFrame ==
    [][IterNext =>
          /\ UNCHANGED <<input, result, chunk_bytes, reads>>
          /\ iter'.status = "live" =>
                /\ iter'.index_data = iter.index_data
                /\ iter'.query = iter.query]_vars

\* a next() has yielded the second message of an iteration over loaded bodies
C13_Witness ==
    /\ Opened /\ Live
    /\ last = "Some"
    /\ iter.current_index = 2
    /\ chunk_bytes # <<>>

\* C10: read_messages on a bag opened without its chunk bodies does not hand out
\* an iterator
C10_MetadataOnlyRejected ==
    ~(/\ Opened
      /\ DOMAIN bag.chunk_metadata # {}
      /\ chunk_bytes = <<>>
      /\ Live)

(***************************************************************************)
(* Claims on the walker, checked under SpecWalk.                           *)
(***************************************************************************)
\* C6: an opened bag holds as many chunks as its bag header's chunk_count and as
\* it had chunk-info records, and as many connections as the header's conn_count
C6_CountBalance ==
    Opened =>
        /\ Cardinality(DOMAIN bag.chunk_metadata) = bag.bag_header.chunk_count
        /\ Cardinality(DOMAIN bag.chunk_metadata) = bag.num_chunk_infos
        /\ Cardinality(DOMAIN bag.connection_data) = bag.bag_header.conn_count

\* C7: a file that does not begin with the 13 bytes "#ROSBAG V2.0\n" is refused
\* with the error that it is not a rosbag
C7_MagicRequired ==
    (result.t # "None" /\ input.magic # "ok") => result = Err("NotARosbag")

\* the walker reads the record at position k: the records before it parse
WalkerReaches(file, k) ==
    parse_records_loop(SubSeq(file.records, 1, k - 1), 1, acc0).t = "Ok"

\* C8: a bag header with index_pos = 0 that the walker reads makes opening fail
\* with the unindexed-bag error, whatever records follow; no opened bag has one
C8_IndexRequired ==
    (result.t # "None" /\ input.magic = "ok") =>
        \A k \in DOMAIN input.records :
            LET rec == input.records[k]
            IN  (rec.op = "BagHeader" /\ rec.index_pos = 0) =>
                    /\ ~Opened
                    /\ (WalkerReaches(input, k) => result = Err("UnindexedBag"))

\* a file of a chunk, an unindexed bag header and a record behind it is refused
\* as unindexed
C8_Witness ==
    /\ result = Err("UnindexedBag")
    /\ Len(input.records) = 3
    /\ input.records[1].op = "ChunkHeader"
    /\ input.records[2].op = "BagHeader" /\ input.records[2].index_pos = 0
    /\ input.records[3].op = "ConnectionHeader"

\* C9: a failure to parse a record is returned as an error: opening yields a bag
\* or an error value and does not abort
C9_FailuresReturned ==
    result.t \in {"None", "Ok", "Err"}

\* the record is a MessageData record: its header's op field is 0x02
IsMessageData(rec) == rec.op = "Raw" /\ read_header_op(rec) = Ok("MessageData")

\* C24: a MessageData record at the top level of the file, at whatever position,
\* makes opening fail, and fail with the invalid-bag error when the walker
\* reads it
C24_TopLevelMessageData ==
    (result.t # "None" /\ input.magic = "ok") =>
        \A k \in DOMAIN input.records :
            IsMessageData(input.records[k]) =>
                /\ ~Opened
                /\ (WalkerReaches(input, k) => result = Err("InvalidBag"))

\* a MessageData record behind a bag header and a chunk is refused
C24_Witness ==
    /\ result = Err("InvalidBag")
    /\ Len(input.records) = 3
    /\ input.records[1].op = "BagHeader"
    /\ input.records[2].op = "ChunkHeader"
    /\ IsMessageData(input.records[3])

\* C27: get_chunk_bytes for a chunk already cached leaves the cache and the
\* reads as they are, so it returns the bytes the first call cached; a call
\* never changes the bytes cached for another chunk; after any calls every
\* chunk has been read from the file at most once and every key of the cache
\* is a key of chunk_metadata
C27_ReadThroughCache ==
    [][\A chunk_loc \in ChunkPositions(input) :
          GetChunkBytes(chunk_loc) =>
              /\ chunk_loc \in DOMAIN chunk_bytes => UNCHANGED <<chunk_bytes, reads>>
              /\ \A p \in DOMAIN chunk_bytes :
                    p \in DOMAIN chunk_bytes' /\ chunk_bytes'[p] = chunk_bytes[p]
              /\ \A p \in DOMAIN reads' : reads'[p] <= 1
              /\ DOMAIN chunk_bytes' \subseteq DOMAIN bag.chunk_metadata]_vars

\* the chunk at position 2 has been read once and is cached
C27_Witness ==
    /\ Opened
    /\ 2 \in DOMAIN chunk_bytes
    /\ chunk_bytes[2] = ChunkBody(MaxEntries + 1)
    /\ reads[2] = 1

\* C28: with every chunk body loaded, read_messages(Query::all()) run to its end
\* has yielded message_count() messages
C28_AllCount ==
    (Opened /\ Live /\ last = "None" /\ BodiesLoaded /\ iter.query = Query_all) =>
        Len(yielded) = message_count(bag)

\* C29: with the body of every chunk of the file loaded, read_messages returns an
\* iterator for every query, whether or not the connections it selects have
\* index entries
C29_ConstructionSucceeds ==
    (Opened /\ BodiesLoaded /\ DOMAIN chunk_bytes = ChunkPositions(input) /\ last = "new")
        => Live

\* C20: with every chunk body loaded, next() returns end exactly when the
\* cursor has reached the length of the selected list; otherwise it yields a
\* view and the cursor grows by one.  The cursor never passes the length, and
\* after an end every later next() returns end
C20_EndIffExhausted ==
    [][(IterNext /\ BodiesLoaded) =>
          /\ (last' = "None") <=> (iter.current_index >= Len(iter.index_data))
          /\ last' # "None" =>
                /\ last' = "Some"
                /\ iter'.status = "live"
                /\ iter'.current_index = iter.current_index + 1
                /\ iter'.current_index <= Len(iter'.index_data)
                /\ Len(yielded') = Len(yielded) + 1
          /\ last = "None" => last' = "None"]_vars

\* C17: after a successful parse the chunk_header_pos of every IndexEntry of
\* index_data is a key of chunk_metadata
C17_IndexedChunkKnown ==
    Opened =>
        \A c \in DOMAIN bag.index_data :
            \A i \in DOMAIN bag.index_data[c] :
                bag.index_data[c][i].chunk_header_pos \in DOMAIN bag.chunk_metadata

\* C18: after a successful parse the conn_id of every IndexEntry of index_data
\* is a key of connection_data
C18_IndexedConnectionKnown ==
    Opened =>
        \A c \in DOMAIN bag.index_data :
            \A i \in DOMAIN bag.index_data[c] :
                bag.index_data[c][i].conn_id \in DOMAIN bag.connection_data

(***************************************************************************)
(* The Query builders.  input is the query under construction, prev the    *)
(* query before the latest builder call and last that call.                *)
(***************************************************************************)
\* frost/src/util/query.rs Query::with_topics, with_types, with_start_time,
\* with_end_time
with_topics(q, topics) == [q EXCEPT !.topics = <<topics>>]
with_types(q, types) == [q EXCEPT !.types = <<types>>]
with_start_time(q, start_time) == [q EXCEPT !.start_time = <<start_time>>]
with_end_time(q, end_time) == [q EXCEPT !.end_time = <<end_time>>]

\* src/util/query.rs Query::topics, types, start_time, end_time: the builders of
\* the crate at the root of the repository
Query_topics(q, topics) == [q EXCEPT !.topics = <<topics>>]
Query_types(q, types) == [q EXCEPT !.topics = <<types>>]
Query_start_time(q, start_time) == [q EXCEPT !.start_time = <<start_time>>]
Query_end_time(q, end_time) == [q EXCEPT !.end_time = <<end_time>>]

\* the strings a caller passes as topics or types
Names == (SUBSET Topics \ {{}}) \cup {{ty} : ty \in Types}

\* Query::new(), which is Query::all()
InitQuery ==
    /\ input = Query_all
    /\ InitRest

\* Each action is one builder call; last records the call, the dimension it is
\* documented to set and the argument it was given.
CallWithTopics ==
    \E a \in Names :
        /\ input' = with_topics(input, a)
        /\ prev' = <<input>>
        /\ last' = [call |-> "with_topics", dimension |-> "topics", arg |-> a]
        /\ UNCHANGED <<result, chunk_bytes, reads, iter, yielded>>

CallWithTypes ==
    \E a \in Names :
        /\ input' = with_types(input, a)
        /\ prev' = <<input>>
        /\ last' = [call |-> "with_types", dimension |-> "types", arg |-> a]
        /\ UNCHANGED <<result, chunk_bytes, reads, iter, yielded>>

CallWithStartTime ==
    \E t \in Times :
        /\ input' = with_start_time(input, t)
        /\ prev' = <<input>>
        /\ last' = [call |-> "with_start_time", dimension |-> "start_time", arg |-> t]
        /\ UNCHANGED <<result, chunk_bytes, reads, iter, yielded>>

CallWithEndTime ==
    \E t \in Times :
        /\ input' = with_end_time(input, t)
        /\ prev' = <<input>>
        /\ last' = [call |-> "with_end_time", dimension |-> "end_time", arg |-> t]
        /\ UNCHANGED <<result, chunk_bytes, reads, iter, yielded>>

CallTopics ==
    \E a \in Names :
        /\ input' = Query_topics(input, a)
        /\ prev' = <<input>>
        /\ last' = [call |-> "topics", dimension |-> "topics", arg |-> a]
        /\ UNCHANGED <<result, chunk_bytes, reads, iter, yielded>>

CallTypes ==
    \E a \in Names :
        /\ input' = Query_types(input, a)
        /\ prev' = <<input>>
        /\ last' = [call |-> "types", dimension |-> "types", arg |-> a]
        /\ UNCHANGED <<result, chunk_bytes, reads, iter, yielded>>

CallStartTime ==
    \E t \in Times :
        /\ input' = Query_start_time(input, t)
        /\ prev' = <<input>>
        /\ last' = [call |-> "start_time", dimension |-> "start_time", arg |-> t]
        /\ UNCHANGED <<result, chunk_bytes, reads, iter, yielded>>

CallEndTime ==
    \E t \in Times :
        /\ input' = Query_end_time(input, t)
        /\ prev' = <<input>>
        /\ last' = [call |-> "end_time", dimension |-> "end_time", arg |-> t]
        /\ UNCHANGED <<result, chunk_bytes, reads, iter, yielded>>

NextQuery ==
    \/ CallWithTopics
    \/ CallWithTypes
    \/ CallWithStartTime
    \/ CallWithEndTime
    \/ CallTopics
    \/ CallTypes
    \/ CallStartTime
    \/ CallEndTime

SpecQuery == InitQuery /\ [][NextQuery]_vars

\* C14: a builder call sets its own dimension to its argument and leaves the
\* other three dimensions of the query as they were
C14_BuilderFrame ==
    prev # <<>> =>
        \A dim \in {"topics", "types", "start_time", "end_time"} :
            input[dim] = IF dim = last.dimension THEN <<last.arg>> ELSE prev[1][dim]

(***************************************************************************)
(* Comparing two Time values.  input is the pair compared, result the      *)
(* Ordering that cmp returned.                                             *)
(***************************************************************************)
\* the Time values compared: u32 secs with u32 nsecs, as Time::from reads them
\* from eight bytes; nsecs is not kept below one second
TimeValues ==
    {0, 1, 2, 3} \X
        {0, 1, NANOS_PER_SEC - 1, NANOS_PER_SEC, NANOS_PER_SEC + 1, 2 * NANOS_PER_SEC}

InitTime ==
    /\ input \in TimeValues \X TimeValues
    /\ InitRest

\* impl PartialEq for Time: the fields are equal
Time_eq(a, b) == a[1] = b[1] /\ a[2] = b[2]

\* a.cmp(&b) and a == b for the pair in input
CompareTimes ==
    /\ result.t = "None"
    /\ result' = [t |-> "Ordering", v |-> TimeCmp(input[1], input[2]),
                  eq |-> Time_eq(input[1], input[2])]
    /\ UNCHANGED <<input, chunk_bytes, reads, iter, yielded, last, prev>>

SpecTime == InitTime /\ [][CompareTimes]_vars

\* C15: a < b exactly when a.secs < b.secs, or a.secs = b.secs and
\* a.nsecs < b.nsecs
C15_Lexicographic ==
    result.t = "Ordering" =>
        LET a == input[1]
            b == input[2]
        IN  (result.v = -1) <=> (a[1] < b[1] \/ (a[1] = b[1] /\ a[2] < b[2]))

\* C30: a.cmp(&b) is Equal exactly when a == b
C30_OrdAgreesWithEq ==
    result.t = "Ordering" => ((result.v = 0) <=> result.eq)

(***************************************************************************)
(* The time span of an opened bag.  The files are a bag header, up to      *)
(* MaxChunks chunks and as many chunk infos, whose positions and times are *)
(* whatever the file holds; yielded is what duration() returned.           *)
(***************************************************************************)
MaxChunks == 2

\* a chunk info of no connection covering start_time .. end_time
TimedChunkInfoRec(chunk_pos, start_time, end_time) ==
    [op |-> "ChunkInfoHeader", ver |-> 1, chunk_pos |-> chunk_pos,
     start_time |-> start_time, end_time |-> end_time, count |-> 0, data |-> <<>>]

InfoFile(infos) ==
    [magic |-> "ok",
     records |-> <<BagHeaderRec(1, 0, Len(infos))>>
                 \o [k \in 1..Len(infos) |-> ChunkHeaderRec(<<>>)] \o infos]

\* the chunk infos of a file stand at the position of one of the chunk headers
\* (records 2 .. MaxChunks + 1 of the file), with start and end times of Times
\* or later
InfoFiles ==
    {InfoFile(infos) :
        infos \in SeqsUpTo({TimedChunkInfoRec(p, s, e) :
                               p \in 2..(MaxChunks + 1),
                               s \in Times \cup {<<2, 0>>}, e \in Times \cup {<<2, 0>>}},
                           MaxChunks)}

\* lib.rs Bag::start_time: .min() returns the first of the least elements, in
\* the key order of chunk_metadata
start_time(b) ==
    LET least == {p \in DOMAIN b.chunk_metadata :
                     \A q \in DOMAIN b.chunk_metadata :
                         TimeLe(b.chunk_metadata[p].start_time, b.chunk_metadata[q].start_time)}
    IN  IF least = {} THEN <<>>
        ELSE <<b.chunk_metadata[CHOOSE p \in least : \A q \in least : p <= q].start_time>>

\* lib.rs Bag::end_time: .max() returns the last of the greatest elements
end_time(b) ==
    LET greatest == {p \in DOMAIN b.chunk_metadata :
                        \A q \in DOMAIN b.chunk_metadata :
                            TimeLe(b.chunk_metadata[q].end_time, b.chunk_metadata[p].end_time)}
    IN  IF greatest = {} THEN <<>>
        ELSE <<b.chunk_metadata[Max(greatest)].end_time>>

\* Duration - Duration on <<secs, nanos>>: panics when the result is negative
Duration_sub(a, b) ==
    IF a[1] < b[1] \/ (a[1] = b[1] /\ a[2] < b[2]) THEN Panic
    ELSE IF a[2] >= b[2] THEN Ok(<<a[1] - b[1], a[2] - b[2]>>)
    ELSE Ok(<<a[1] - b[1] - 1, a[2] + NANOS_PER_SEC - b[2]>>)

\* util/time.rs Time::dur
Time_dur(self, other) == Duration_sub(DurationFrom(self), DurationFrom(other))

\* lib.rs Bag::duration
duration(b) ==
    Time_dur(IF end_time(b) = <<>> THEN ZERO ELSE end_time(b)[1],
             IF start_time(b) = <<>> THEN ZERO ELSE start_time(b)[1])

InitInfo ==
    /\ input \in InfoFiles
    /\ InitRest

\* bag.duration()
CallDuration ==
    /\ Opened
    /\ yielded = <<>>
    /\ yielded' = <<duration(bag)>>
    /\ UNCHANGED <<input, result, chunk_bytes, reads, iter, last, prev>>

NextInfo ==
    \/ Open
    \/ CallDuration

SpecInfo == InitInfo /\ [][NextInfo]_vars

\* the ends of the time span the chunk metadata cover, as Durations
SpanStarts == {DurationFrom(bag.chunk_metadata[p].start_time) : p \in DOMAIN bag.chunk_metadata}
SpanEnds == {DurationFrom(bag.chunk_metadata[p].end_time) : p \in DOMAIN bag.chunk_metadata}
DurationLe(a, b) == a[1] < b[1] \/ (a[1] = b[1] /\ a[2] <= b[2])
DurationAdd(a, b) ==
    <<a[1] + b[1] + ((a[2] + b[2]) \div NANOS_PER_SEC), (a[2] + b[2]) % NANOS_PER_SEC>>

\* C16: duration() of an opened bag returns a value, which is zero for a bag of
\* no chunk metadata and otherwise the greatest end_time of the chunk metadata
\* minus their least start_time
C16_Duration ==
    (Opened /\ yielded # <<>>) =>
        /\ yielded[1].t = "Ok"
        /\ SpanStarts = {} => yielded[1].v = <<0, 0>>
        /\ SpanStarts # {} =>
              \E s \in SpanStarts, e \in SpanEnds :
                  /\ \A x \in SpanStarts : DurationLe(s, x)
                  /\ \A x \in SpanEnds : DurationLe(x, e)
                  /\ DurationAdd(yielded[1].v, s) = e

\* the chunk-info records of the file read whose chunk_pos is p
ChunkInfosAt(p) ==
    {i \in DOMAIN input.records :
        input.records[i].op = "ChunkInfoHeader" /\ input.records[i].chunk_pos = p}

\* C19: after a successful parse each entry of chunk_metadata has exactly one
\* chunk-info record at its chunk_header_pos, and its start_time, end_time,
\* connection_count and message_counts are those of that record
C19_OneChunkInfo ==
    Opened =>
        \A p \in DOMAIN bag.chunk_metadata :
            /\ Cardinality(ChunkInfosAt(p)) = 1
            /\ \A i \in ChunkInfosAt(p) :
                  /\ bag.chunk_metadata[p].start_time = input.records[i].start_time
                  /\ bag.chunk_metadata[p].end_time = input.records[i].end_time
                  /\ bag.chunk_metadata[p].connection_count = input.records[i].count
                  /\ bag.chunk_metadata[p].message_counts
                        = message_counts(parse_chunk_info(input.records[i]).v.data)

(***************************************************************************)
(* The header parsers on headers given by their bytes.  input is           *)
(* [kind, fields, header]: the record kind the header is parsed as, the    *)
(* fields it was written with, in order, and its bytes; result is what the *)
(* kind's from() returned.                                                 *)
(***************************************************************************)
INDEX_POS_NAME == <<105, 110, 100, 101, 120, 95, 112, 111, 115>>
CONN_COUNT_NAME == <<99, 111, 110, 110, 95, 99, 111, 117, 110, 116>>
CHUNK_COUNT_NAME == <<99, 104, 117, 110, 107, 95, 99, 111, 117, 110, 116>>
COMPRESSION_NAME == <<99, 111, 109, 112, 114, 101, 115, 115, 105, 111, 110>>
SIZE_NAME == <<115, 105, 122, 101>>
VER_NAME == <<118, 101, 114>>
COUNT_NAME == <<99, 111, 117, 110, 116>>

\* enum OpCode: the op code of a record kind
OpOf(kind) ==
    CASE kind = "BagHeader" -> 3
      [] kind = "ChunkHeader" -> 5
      [] kind = "IndexDataHeader" -> 4
      [] kind = "MessageData" -> OP_MESSAGE_DATA

\* util/parsing.rs parse_le_u64_at; the headers of the model keep the upper four
\* bytes zero, so the value is that of the lower four
parse_le_u64_at(buf, index) ==
    IF index + 8 <= Len(buf) THEN parse_le_u32_at(buf, index) ELSE Err("BufferTooSmall")

\* BagHeader::from, the match on the field's name
BagHeader_match(acc, f) ==
    CASE f.name = INDEX_POS_NAME -> set_field(acc, "index_pos", parse_le_u64_at(f.value, 0))
      [] f.name = CONN_COUNT_NAME -> set_field(acc, "conn_count", parse_le_u32_at(f.value, 0))
      [] f.name = CHUNK_COUNT_NAME -> set_field(acc, "chunk_count", parse_le_u32_at(f.value, 0))
      [] f.name = OP_NAME -> check_op(acc, parse_u8_at(f.value, 0), OpOf("BagHeader"))
      [] OTHER -> Err("InvalidRecordField")

\* BagHeader::from, the struct built behind the loop
BagHeader_build(acc) ==
    IF acc.index_pos = <<>> \/ acc.conn_count = <<>> \/ acc.chunk_count = <<>>
    THEN Err("MissingRecordField")
    ELSE Ok([index_pos |-> acc.index_pos[1], conn_count |-> acc.conn_count[1],
             chunk_count |-> acc.chunk_count[1]])

\* ChunkHeader::from with every field name accepted
ChunkHeader_match_any(acc, f) ==
    CASE f.name = COMPRESSION_NAME -> set_field(acc, "compression", Ok(f.value))
      [] f.name = SIZE_NAME -> set_field(acc, "size", parse_le_u32_at(f.value, 0))
      [] f.name = OP_NAME -> check_op(acc, parse_u8_at(f.value, 0), OpOf("ChunkHeader"))
      [] OTHER -> Ok(acc)

\* ChunkHeader::from, the match on the field's name; compression is kept as
\* its bytes
ChunkHeader_match(acc, f) ==
    CASE f.name = COMPRESSION_NAME -> set_field(acc, "compression", Ok(f.value))
      [] f.name = SIZE_NAME -> set_field(acc, "size", parse_le_u32_at(f.value, 0))
      [] f.name = OP_NAME -> check_op(acc, parse_u8_at(f.value, 0), OpOf("ChunkHeader"))
      [] OTHER -> Err("InvalidRecordField")

ChunkHeader_build(acc) ==
    IF acc.compression = <<>> \/ acc.size = <<>> THEN Err("MissingRecordField")
    ELSE Ok([compression |-> acc.compression[1], uncompressed_size |-> acc.size[1]])

\* IndexDataHeader::from, the match on the field's name
IndexDataHeader_match(acc, f) ==
    CASE f.name = VER_NAME -> set_field(acc, "version", parse_le_u32_at(f.value, 0))
      [] f.name = CONN_NAME -> set_field(acc, "connection_id", parse_le_u32_at(f.value, 0))
      [] f.name = COUNT_NAME -> set_field(acc, "count", parse_le_u32_at(f.value, 0))
      [] f.name = OP_NAME -> check_op(acc, parse_u8_at(f.value, 0), OpOf("IndexDataHeader"))
      [] OTHER -> Err("InvalidRecordField")

IndexDataHeader_build(acc) ==
    IF acc.version = <<>> \/ acc.connection_id = <<>> \/ acc.count = <<>>
    THEN Err("MissingRecordField")
    ELSE Ok([version |-> acc.version[1], connection_id |-> acc.connection_id[1],
             count |-> acc.count[1]])

\* the match and the build of the record kind parsed
header_match(kind, acc, f) ==
    CASE kind = "BagHeader" -> BagHeader_match(acc, f)
      [] kind = "ChunkHeader" -> ChunkHeader_match(acc, f)
      [] kind = "IndexDataHeader" -> IndexDataHeader_match(acc, f)

header_build(kind, acc) ==
    CASE kind = "BagHeader" -> BagHeader_build(acc)
      [] kind = "ChunkHeader" -> ChunkHeader_build(acc)
      [] kind = "IndexDataHeader" -> IndexDataHeader_build(acc)

\* the loop of from(): parse_field, the match, and the break once i >= buf.len()
RECURSIVE header_loop(_, _, _, _)
RECURSIVE header_step(_, _, _, _)
RECURSIVE header_next(_, _, _, _)
header_next(kind, buf, i, acc) ==
    IF acc.t # "Ok" THEN acc
    ELSE IF i >= Len(buf) THEN header_build(kind, acc.v)
    ELSE header_loop(kind, buf, i, acc.v)

header_step(kind, buf, acc, f) ==
    IF f.t # "Ok" THEN f
    ELSE header_next(kind, buf, f.v.i, header_match(kind, acc, f.v))

header_loop(kind, buf, i, acc) == header_step(kind, buf, acc, parse_field(buf, i))

\* lib.rs BagHeader::from
BagHeader_from(buf) ==
    header_loop("BagHeader", buf, 0,
                [index_pos |-> <<>>, conn_count |-> <<>>, chunk_count |-> <<>>])

\* lib.rs ChunkHeader::from
ChunkHeader_from(buf) ==
    header_loop("ChunkHeader", buf, 0, [compression |-> <<>>, size |-> <<>>])

\* lib.rs IndexDataHeader::from
IndexDataHeader_from(buf) ==
    header_loop("IndexDataHeader", buf, 0,
                [version |-> <<>>, connection_id |-> <<>>, count |-> <<>>])

\* fields of a header, most in one header of the model
MaxFields == 5

\* the fields the from() of a kind stores
StoredFields(kind) ==
    CASE kind = "BagHeader" -> {"index_pos", "conn_count", "chunk_count"}
      [] kind = "ChunkHeader" -> {"compression", "size"}
      [] kind = "IndexDataHeader" -> {"ver", "conn", "count"}
      [] kind = "MessageData" -> {"conn", "time"}

\* the bytes of a field written well formed: "op" with the kind's code, "bad op"
\* with another code, "x" a field no kind knows
FieldOf(kind, field) ==
    CASE field = "index_pos" -> FieldBytes(INDEX_POS_NAME, u32_le_bytes(1) \o u32_le_bytes(0))
      [] field = "conn_count" -> FieldBytes(CONN_COUNT_NAME, u32_le_bytes(1))
      [] field = "chunk_count" -> FieldBytes(CHUNK_COUNT_NAME, u32_le_bytes(1))
      [] field = "compression" -> FieldBytes(COMPRESSION_NAME, <<110, 111, 110, 101>>)
      [] field = "size" -> FieldBytes(SIZE_NAME, u32_le_bytes(2))
      [] field = "ver" -> FieldBytes(VER_NAME, u32_le_bytes(1))
      [] field = "conn" -> FieldBytes(CONN_NAME, u32_le_bytes(1))
      [] field = "count" -> FieldBytes(COUNT_NAME, u32_le_bytes(1))
      [] field = "time" -> FieldBytes(TIME_NAME, u32_le_bytes(0) \o u32_le_bytes(1))
      [] field = "op" -> FieldBytes(OP_NAME, <<OpOf(kind)>>)
      [] field = "bad op" -> FieldBytes(OP_NAME, <<OpOf(kind) + 8>>)
      [] field = "x" -> FieldBytes(<<120>>, <<0>>)

\* the headers of a kind: up to MaxFields of its fields, of "op", "bad op" and
\* "x", each at most once, in any order
HeadersOf(kind) ==
    {[kind |-> kind, fields |-> fs,
      header |-> Concat([k \in DOMAIN fs |-> FieldOf(kind, fs[k])])] :
        fs \in {f \in SeqsUpTo(StoredFields(kind) \cup {"op", "bad op", "x"}, MaxFields) :
                    Cardinality(Range(f)) = Len(f)}}

InitHeader ==
    /\ input \in UNION {HeadersOf(kind) :
                            kind \in {"BagHeader", "ChunkHeader", "IndexDataHeader",
                                       "MessageData"}}
    /\ InitRest

ParseBagHeader ==
    /\ result.t = "None"
    /\ input.kind = "BagHeader"
    /\ result' = BagHeader_from(input.header)
    /\ UNCHANGED <<input, chunk_bytes, reads, iter, yielded, last, prev>>

ParseChunkHeader ==
    /\ result.t = "None"
    /\ input.kind = "ChunkHeader"
    /\ result' = ChunkHeader_from(input.header)
    /\ UNCHANGED <<input, chunk_bytes, reads, iter, yielded, last, prev>>

ParseIndexDataHeader ==
    /\ result.t = "None"
    /\ input.kind = "IndexDataHeader"
    /\ result' = IndexDataHeader_from(input.header)
    /\ UNCHANGED <<input, chunk_bytes, reads, iter, yielded, last, prev>>

ParseMessageDataHeader ==
    /\ result.t = "None"
    /\ input.kind = "MessageData"
    /\ result' = MessageDataHeader_from(input.header)
    /\ UNCHANGED <<input, chunk_bytes, reads, iter, yielded, last, prev>>

NextHeader ==
    \/ ParseBagHeader
    \/ ParseChunkHeader
    \/ ParseIndexDataHeader
    \/ ParseMessageDataHeader

SpecHeader == InitHeader /\ [][NextHeader]_vars

\* the header has been parsed
Parsed == result.t # "None"

\* the fields written before the k-th are all ones the kind stores, or its op
WellFormedBefore(k) ==
    \A j \in 1..(k - 1) : input.fields[j] \in StoredFields(input.kind) \cup {"op"}

\* C21: a header of at least one field whose fields are all well formed and
\* recognised, and which lacks a required field of its kind, the op field included, fails with a
\* missing-field error
C21_MissingField ==
    (Parsed /\ input.fields # <<>> /\ WellFormedBefore(Len(input.fields) + 1)
        /\ ~((StoredFields(input.kind) \cup {"op"}) \subseteq Range(input.fields)))
    => result = Err("MissingRecordField")

\* C22: a header with a field whose name its kind does not recognise fails, and
\* fails with an unexpected-field error when the fields before that one are
\* well formed, wherever the field stands and whatever fields are present
C22_UnexpectedField ==
    Parsed =>
        \A k \in DOMAIN input.fields :
            input.fields[k] = "x" =>
                /\ result.t = "Err"
                /\ WellFormedBefore(k) => result = Err("InvalidRecordField")

\* an unrecognised field in last place behind all the fields of a chunk header
C22_Witness ==
    /\ Parsed
    /\ input.kind = "ChunkHeader"
    /\ input.fields = <<"compression", "size", "op", "x">>
    /\ result = Err("InvalidRecordField")

(***************************************************************************)
(* The walker on files of several chunks: a bag header, up to MaxIndexed   *)
(* ChunkHeader and IndexData records in any order, and a chunk info at the *)
(* position of each chunk.                                                 *)
(***************************************************************************)
MaxIndexed == 4

\* an IndexData record of one entry whose header says version ver
VersionedIndexRec(ver, conn) ==
    [op |-> "IndexDataHeader", ver |-> ver, conn |-> conn, count |-> 1,
     data |-> <<[time |-> <<0, 1>>, offset |-> MsgOffset(conn)]>>]

\* the positions (1 is the bag header's) of the chunk headers among rs
ChunkHeaderPositions(rs) == {k + 1 : k \in {j \in DOMAIN rs : rs[j].op = "ChunkHeader"}}

\* a chunk info with the data entries data for each position of ps, ascending
RECURSIVE ChunkInfosFor(_, _)
ChunkInfosFor(ps, data) ==
    IF ps = {} THEN <<>>
    ELSE LET p == CHOOSE x \in ps : \A y \in ps : x <= y
         IN  <<ChunkInfoRec(p, Len(data), data)>> \o ChunkInfosFor(ps \ {p}, data)

IndexedFile(rs, data) ==
    [magic |-> "ok",
     records |-> <<BagHeaderRec(1, 0, Cardinality(ChunkHeaderPositions(rs)))>> \o rs
                 \o ChunkInfosFor(ChunkHeaderPositions(rs), data)]

\* the records are chunk headers and IndexData records of version 1 or 2; the
\* data entries of the chunk infos: none, one connection, one connection named
\* twice, two connections
IndexedFiles ==
    {IndexedFile(rs, data) :
        rs \in SeqsUpTo({ChunkHeaderRec(ChunkBody(2))}
                           \cup {VersionedIndexRec(ver, conn) : ver \in {1, 2}, conn \in {0, 1}},
                        MaxIndexed),
        data \in {<<>>,
                  <<[conn |-> 0, count |-> 1]>>,
                  <<[conn |-> 0, count |-> 1], [conn |-> 0, count |-> 2]>>,
                  <<[conn |-> 0, count |-> 1], [conn |-> 1, count |-> 1]>>}}

InitIndexed ==
    /\ input \in IndexedFiles
    /\ InitRest

SpecIndexed == InitIndexed /\ [][Open]_vars

\* the positions of the ChunkHeader records before position k of the file read
ChunksBefore(k) == {j \in 1..(k - 1) : input.records[j].op = "ChunkHeader"}

\* the entries of the IndexData record at position k, attached to the chunk
\* header nearest before it
AttachedEntries(k) ==
    [i \in DOMAIN input.records[k].data |->
        [conn_id |-> input.records[k].conn, chunk_header_pos |-> Max(ChunksBefore(k)),
         time |-> input.records[k].data[i].time, offset |-> input.records[k].data[i].offset]]

\* the entries of the IndexData records of connection c, in file order
AttachedOf(c) ==
    Concat([k \in DOMAIN input.records |->
               IF input.records[k].op = "IndexDataHeader" /\ input.records[k].conn = c
               THEN AttachedEntries(k) ELSE <<>>])

\* C23: the entries of every IndexData record carry the position of the chunk
\* header most recently read before the record, and an IndexData record read
\* before any chunk header makes opening fail with the missing-chunk error
C23_IndexAttachment ==
    (result.t # "None") =>
        /\ Opened => \A c \in DOMAIN bag.index_data : bag.index_data[c] = AttachedOf(c)
        /\ \A k \in DOMAIN input.records :
              (input.records[k].op = "IndexDataHeader" /\ ChunksBefore(k) = {}
                  /\ WalkerReaches(input, k)) => result = Err("MissingChunk")

\* a bag of two chunks, each followed by an IndexData record of connection 0
C23_Witness ==
    /\ Opened
    /\ Len(input.records) = 7
    /\ 0 \in DOMAIN bag.index_data
    /\ Len(bag.index_data[0]) = 2
    /\ bag.index_data[0][1].chunk_header_pos = 2
    /\ bag.index_data[0][2].chunk_header_pos = 4

\* C25: no bag with an IndexData record whose ver is not 1 is opened
C25_IndexVersion ==
    Opened =>
        \A k \in DOMAIN input.records :
            input.records[k].op = "IndexDataHeader" => input.records[k].ver = 1

\* the sum of the counts of the data entries of connection c from the i-th on
RECURSIVE CountSum(_, _, _)
CountSum(data, c, i) ==
    IF i > Len(data) THEN 0
    ELSE (IF data[i].conn = c THEN data[i].count ELSE 0) + CountSum(data, c, i + 1)

\* C26: message_counts of a chunk maps each connection named by the data
\* entries of the chunk's chunk info to the sum of the counts of its entries
C26_CountsSummed ==
    Opened =>
        \A p \in DOMAIN bag.chunk_metadata :
            \A k \in ChunkInfosAt(p) :
                /\ DOMAIN bag.chunk_metadata[p].message_counts
                      = {input.records[k].data[i].conn : i \in DOMAIN input.records[k].data}
                /\ \A c \in DOMAIN bag.chunk_metadata[p].message_counts :
                      bag.chunk_metadata[p].message_counts[c]
                          = CountSum(input.records[k].data, c, 1)

====
